---- MODULE Spec2Model ----
(***************************************************************************)
(* Model of the vault tree viewer (src/src/tree_viewer) and of the tree    *)
(* functions of the vault crawler (src/vault_crawler.py).                  *)
(*                                                                         *)
(* The record collection (a pandas DataFrame in the viewer, a list of dict *)
(* in the crawler) is a sequence of records [name, parent, status].  The   *)
(* functions of the logic, analysis and workflow layers are operators that *)
(* keep the names of the source; one action per function applies it to the *)
(* loaded collection and stores what it returns.                           *)
(***************************************************************************)
EXTENDS Integers, Sequences, FiniteSets

VARIABLES
    df,        \* the loaded record collection (rows in storage order)
    op,        \* the function applied in this request ("idle" before any)
    args,      \* the arguments it was given
    result,    \* what it returned
    st         \* the viewer's streamlit state: query parameters, session
               \* state and the values of the sidebar widgets

vars == <<df, op, args, result, st>>

----------------------------------------------------------------------------
(* Bounds and value domains *)

\* the largest number of records in a collection
MaxRecords == 3

\* the largest explicit max_depth argument tried besides the default
MaxDepthArg == 2

\* the frames a traversal may stack before the interpreter gives up
\* (RecursionError); above what any traversal of the bounded collections needs
StackLimit == 8

\* the iterations a while loop may run before it counts as not terminating
LoopLimit == 8

\* default of the max_depth parameter
DefaultMaxDepth == 20

\* note names (file stems); "B" is upper case so that str.lower matters
Names == {"a", "B", "c"}

\* a parent value with surrounding blanks, as a link "[[ a]]" leaves it
PaddedParent == " a"

\* a parent value of blanks only, as a link "[[ ]]" leaves it
Blank == " "

\* a parent value that names no record
Ghost == "ghost"

\* the values of the parent column: empty, a name, a padded name, dangling
Parents == {""} \cup Names \cup {PaddedParent, Ghost}

\* the values of the status column
Statuses == {"active", "proposed"}

\* the columns of the collection that the model reads
Columns == {"name", "parent", "status", "category"}

\* the placeholder name of an empty tree
NoData == "(no data)"

\* the absent argument (Python None)
None == "None"

----------------------------------------------------------------------------
(* Strings: str.strip, str.lower and the order of str *)

\* str.strip() on the values of the model
Strip(s) == IF s = PaddedParent THEN "a" ELSE IF s = Blank THEN "" ELSE s

\* str.lower() on the values of the model
Lower(s) == IF s = "B" THEN "b" ELSE s

\* position of a string in the code-point order of str (" " < "(" < "B" < "a")
CodeRank(s) ==
    CASE s = ""           -> 0
      [] s = Blank        -> 1
      [] s = PaddedParent -> 2
      [] s = NoData       -> 3
      [] s = "B"          -> 4
      [] s = None         -> 5
      [] s = "a"          -> 6
      [] s = "b"          -> 7
      [] s = "c"          -> 8
      [] s = Ghost        -> 9
      [] OTHER            -> 10

\* key=str.lower
LowerKey(s) == CodeRank(Lower(s))

\* list.insert of x behind every element whose key is not greater (stable)
RECURSIVE InsertByKey(_, _)
InsertByKey(sorted, x) ==
    IF sorted = <<>> THEN <<x>>
    ELSE IF LowerKey(Head(sorted)) <= LowerKey(x)
         THEN <<Head(sorted)>> \o InsertByKey(Tail(sorted), x)
         ELSE <<x>> \o sorted

\* sorted(seq, key=str.lower): stable, ascending by the lower-cased string
RECURSIVE SortedLower(_)
SortedLower(seq) ==
    IF seq = <<>> THEN <<>>
    ELSE InsertByKey(SortedLower(SubSeq(seq, 1, Len(seq) - 1)), seq[Len(seq)])

\* the elements of a sequence
Range(seq) == {seq[i] : i \in 1..Len(seq)}

\* dict.get(key, [])
Get(map, key) == IF key \in DOMAIN map THEN map[key] ELSE <<>>

\* df['name'].tolist()
NameList(rows) == [i \in 1..Len(rows) |-> rows[i].name]

\* set(df['name'].tolist())
NameSet(rows) == {rows[i].name : i \in 1..Len(rows)}

\* the test "parent and pd.notna(parent) and str(parent).strip()"
HasParent(row) == row.parent # "" /\ Strip(row.parent) # ""

----------------------------------------------------------------------------
(* tree_viewer_logic.py *)

\* build_children_map that keeps the parent values as they are stored
build_children_map_untrimmed(rows) ==
    LET keys == {rows[i].parent : i \in {j \in 1..Len(rows) : HasParent(rows[j])}}
        group(p) == SelectSeq(rows, LAMBDA r : HasParent(r) /\ r.parent = p)
    IN [p \in keys |-> SortedLower(NameList(group(p)))]

\* build_children_map without the final sort of each list
build_children_map_unsorted(rows) ==
    LET keys == {Strip(rows[i].parent) : i \in {j \in 1..Len(rows) : HasParent(rows[j])}}
        group(p) == SelectSeq(rows, LAMBDA r : HasParent(r) /\ Strip(r.parent) = p)
    IN [p \in keys |-> NameList(group(p))]

build_children_map(rows) ==
    LET keys == {Strip(rows[i].parent) : i \in {j \in 1..Len(rows) : HasParent(rows[j])}}
        group(p) == SelectSeq(rows, LAMBDA r : HasParent(r) /\ Strip(r.parent) = p)
    IN [p \in keys |-> SortedLower(NameList(group(p)))]

build_parents_map(rows) ==
    LET withParent == {i \in 1..Len(rows) : HasParent(rows[i])}
        keys == {rows[i].name : i \in withParent}
        \* a later row of the same name overwrites the entry
        last(n) == CHOOSE i \in withParent :
                      /\ rows[i].name = n
                      /\ \A j \in withParent : rows[j].name = n => j <= i
    IN [n \in keys |-> Strip(rows[last(n)].parent)]

\* find_roots that forgets the records whose parent names no record
find_roots_empty_parent_only(rows) ==
    LET isRoot(r) == r.parent = "" \/ Strip(r.parent) = ""
    IN SortedLower(NameList(SelectSeq(rows, isRoot)))

find_roots(rows) ==
    LET note_names == NameSet(rows)
        isRoot(r) == \/ r.parent = ""
                     \/ Strip(r.parent) = ""
                     \/ Strip(r.parent) \notin note_names
    IN SortedLower(NameList(SelectSeq(rows, isRoot)))

get_all_note_names(rows) == SortedLower(NameList(rows))

\* build_tree_data whose visited set also holds the siblings built before
RECURSIVE build_tree_data_siblings_visited(_, _, _, _, _)
build_tree_data_siblings_visited(root_name, children_map, note_names, visited, max_depth) ==
    IF root_name \in visited \/ max_depth <= 0
    THEN [name |-> root_name]
    ELSE LET seen == visited \cup {root_name}
             children == Get(children_map, root_name)
             kept == SelectSeq(children, LAMBDA c : c \in note_names)
         IN IF children = <<>>
            THEN [name |-> root_name]
            ELSE [name |-> root_name,
                  children |-> [i \in 1..Len(kept) |->
                      build_tree_data_siblings_visited(kept[i], children_map,
                          note_names, seen \cup {kept[j] : j \in 1..(i - 1)},
                          max_depth - 1)]]

\* build_tree_data without the depth guard
RECURSIVE build_tree_data_no_depth_guard(_, _, _, _, _)
build_tree_data_no_depth_guard(root_name, children_map, note_names, visited, max_depth) ==
    IF root_name \in visited
    THEN [name |-> root_name]
    ELSE LET seen == visited \cup {root_name}
             children == Get(children_map, root_name)
             kept == SelectSeq(children, LAMBDA c : c \in note_names)
         IN IF children = <<>>
            THEN [name |-> root_name]
            ELSE [name |-> root_name,
                  children |-> [i \in 1..Len(kept) |->
                      build_tree_data_no_depth_guard(kept[i], children_map,
                                      note_names, seen, max_depth - 1)]]

\* build_tree_data that drops a child already on the path instead of
\* emitting it as a leaf
RECURSIVE build_tree_data_drop_repeats(_, _, _, _, _)
build_tree_data_drop_repeats(root_name, children_map, note_names, visited, max_depth) ==
    IF max_depth <= 0
    THEN [name |-> root_name]
    ELSE LET seen == visited \cup {root_name}
             children == Get(children_map, root_name)
             kept == SelectSeq(children, LAMBDA c : c \in note_names /\ c \notin seen)
         IN IF kept = <<>>
            THEN [name |-> root_name]
            ELSE [name |-> root_name,
                  children |-> [i \in 1..Len(kept) |->
                      build_tree_data_drop_repeats(kept[i], children_map,
                                      note_names, seen, max_depth - 1)]]

\* build_tree_data that stops one level later: max_depth < 0
RECURSIVE build_tree_data_one_level_more(_, _, _, _, _)
build_tree_data_one_level_more(root_name, children_map, note_names, visited, max_depth) ==
    IF root_name \in visited \/ max_depth < 0
    THEN [name |-> root_name]
    ELSE LET seen == visited \cup {root_name}
             children == Get(children_map, root_name)
             kept == SelectSeq(children, LAMBDA c : c \in note_names)
         IN IF children = <<>>
            THEN [name |-> root_name]
            ELSE [name |-> root_name,
                  children |-> [i \in 1..Len(kept) |->
                      build_tree_data_one_level_more(kept[i], children_map,
                                      note_names, seen, max_depth - 1)]]

RECURSIVE build_tree_data(_, _, _, _, _)
build_tree_data(root_name, children_map, note_names, visited, max_depth) ==
    IF root_name \in visited \/ max_depth <= 0
    THEN [name |-> root_name]
    ELSE LET seen == visited \cup {root_name}
             children == Get(children_map, root_name)
             kept == SelectSeq(children, LAMBDA c : c \in note_names)
         IN IF children = <<>>
            THEN [name |-> root_name]
            ELSE [name |-> root_name,
                  children |-> [i \in 1..Len(kept) |->
                      build_tree_data(kept[i], children_map, note_names,
                                      seen, max_depth - 1)]]

\* build_inverted_tree_data that follows a parent that is no valid name
RECURSIVE build_inverted_tree_data_any_parent(_, _, _, _, _)
build_inverted_tree_data_any_parent(leaf_name, parents_map, note_names, visited, max_depth) ==
    IF leaf_name \in visited \/ max_depth <= 0
    THEN [name |-> leaf_name]
    ELSE LET seen == visited \cup {leaf_name}
         IN IF leaf_name \in DOMAIN parents_map /\ parents_map[leaf_name] # ""
            THEN [name |-> leaf_name,
                  children |-> <<build_inverted_tree_data_any_parent(
                                    parents_map[leaf_name], parents_map,
                                    note_names, seen, max_depth - 1)>>]
            ELSE [name |-> leaf_name]

RECURSIVE build_inverted_tree_data(_, _, _, _, _)
build_inverted_tree_data(leaf_name, parents_map, note_names, visited, max_depth) ==
    IF leaf_name \in visited \/ max_depth <= 0
    THEN [name |-> leaf_name]
    ELSE LET seen == visited \cup {leaf_name}
         IN IF /\ leaf_name \in DOMAIN parents_map
               /\ parents_map[leaf_name] # ""
               /\ parents_map[leaf_name] \in note_names
            THEN [name |-> leaf_name,
                  children |-> <<build_inverted_tree_data(parents_map[leaf_name],
                                    parents_map, note_names, seen, max_depth - 1)>>]
            ELSE [name |-> leaf_name]


\* filter_dataframe that applies an empty accepted list like any other
filter_dataframe_empty_list_applied(rows, filters) ==
    SelectSeq(rows, LAMBDA r :
        \A column \in DOMAIN filters :
            column \in Columns => r[column] \in filters[column])

\* filters: column -> accepted values; a column is applied only when its list
\* is not empty and the collection has the column
filter_dataframe(rows, filters) ==
    SelectSeq(rows, LAMBDA r :
        \A column \in DOMAIN filters :
            (filters[column] # {} /\ column \in Columns) =>
                r[column] \in filters[column])

\* the loop "while current in parents_map and current not in visited" of
\* filter_with_ancestors, from one matching name (hung: it did not stop
\* within LoopLimit iterations)
RECURSIVE ancestor_walk(_, _, _, _, _, _)
ancestor_walk(current, visited, parents_map, all_names, found, steps) ==
    IF steps > LoopLimit
    THEN [names |-> found, hung |-> TRUE]
    ELSE IF current \in DOMAIN parents_map /\ current \notin visited
    THEN LET parent == parents_map[current]
         IN ancestor_walk(parent, visited \cup {current}, parents_map, all_names,
                          IF parent \in all_names THEN found \cup {parent} ELSE found,
                          steps + 1)
    ELSE [names |-> found, hung |-> FALSE]

\* ancestors_to_include of filter_with_ancestors
ancestors_to_include(matching_names, parents_map, all_names) ==
    LET walk(n) == ancestor_walk(n, {}, parents_map, all_names, {}, 1)
    IN [names |-> UNION {walk(n).names : n \in matching_names},
        hung |-> \E n \in matching_names : walk(n).hung]

filter_with_ancestors(rows, filters) ==
    IF DOMAIN filters = {}
    THEN [rows |-> rows, hung |-> FALSE]
    ELSE LET matching_names == NameSet(filter_dataframe(rows, filters))
             ancestors == ancestors_to_include(matching_names,
                                               build_parents_map(rows), NameSet(rows))
             nodes_to_include == matching_names \cup ancestors.names
         IN [rows |-> SelectSeq(rows, LAMBDA r : r.name \in nodes_to_include),
             hung |-> ancestors.hung]

\* get_subtree_names shares one visited set among all calls
RECURSIVE get_subtree_names(_, _, _, _)
RECURSIVE subtree_children(_, _, _, _)
get_subtree_names(root_name, children_map, visited, frames) ==
    IF frames > StackLimit
    THEN [names |-> {}, visited |-> visited, raised |-> TRUE]
    ELSE IF root_name \in visited
    THEN [names |-> {}, visited |-> visited, raised |-> FALSE]
    ELSE subtree_children(Get(children_map, root_name), children_map,
                          [names |-> {root_name},
                           visited |-> visited \cup {root_name},
                           raised |-> FALSE],
                          frames)

\* the loop "for child in ...: names.update(get_subtree_names(child, ...))"
subtree_children(children, children_map, acc, frames) ==
    IF children = <<>> \/ acc.raised
    THEN acc
    ELSE LET sub == get_subtree_names(Head(children), children_map,
                                      acc.visited, frames + 1)
         IN subtree_children(Tail(children), children_map,
                             [names |-> acc.names \cup sub.names,
                              visited |-> sub.visited,
                              raised |-> sub.raised],
                             frames)

----------------------------------------------------------------------------
(* vault_crawler.py *)

\* build_tree of the crawler: parent -> children, the parent as extracted
build_tree(notes) ==
    LET keys == {notes[i].parent : i \in {j \in 1..Len(notes) : notes[j].parent # ""}}
        group(p) == SelectSeq(notes, LAMBDA n : n.parent = p)
    IN [p \in keys |-> SortedLower(NameList(group(p)))]

\* the concatenation of the line lists of seq
RECURSIVE JoinLines(_)
JoinLines(seq) == IF seq = <<>> THEN <<>> ELSE Head(seq).lines \o JoinLines(Tail(seq))

\* generate_tree_md: a line is [indent, name], for "[[name]]" at indent 0 and
\* indent - 1 tabs and "- [[name]]" below; each child gets a copy of visited
RECURSIVE generate_tree_md(_, _, _, _, _)
generate_tree_md(name, children_map, indent, visited, frames) ==
    IF frames > StackLimit
    THEN [lines |-> <<>>, raised |-> TRUE]
    ELSE IF name \in visited
    THEN [lines |-> <<>>, raised |-> FALSE]
    ELSE LET children == Get(children_map, name)
             subs == [i \in 1..Len(children) |->
                         generate_tree_md(children[i], children_map, indent + 1,
                                          visited \cup {name}, frames + 1)]
         IN [lines |-> <<[indent |-> indent, name |-> name]>> \o JoinLines(subs),
             raised |-> \E i \in 1..Len(children) : subs[i].raised]

\* find_roots of the crawler: the parent is compared as extracted
crawler_find_roots(notes) ==
    LET note_names == NameSet(notes)
        isRoot(n) == n.parent = "" \/ n.parent \notin note_names
    IN SortedLower(NameList(SelectSeq(notes, isRoot)))

----------------------------------------------------------------------------
(* tree_viewer_analysis.py *)

\* count_descendants shares one visited set among all calls: a call returns
\* its count together with the set as it left it (raised: RecursionError)
RECURSIVE count_descendants(_, _, _, _)
RECURSIVE count_children(_, _, _, _)
count_descendants(node_name, children_map, visited, frames) ==
    IF frames > StackLimit
    THEN [count |-> 0, visited |-> visited, raised |-> TRUE]
    ELSE IF node_name \in visited
    THEN [count |-> 0, visited |-> visited, raised |-> FALSE]
    ELSE count_children(Get(children_map, node_name), children_map,
                        [count |-> 0, visited |-> visited \cup {node_name},
                         raised |-> FALSE],
                        frames)

\* the loop "for child in children: count += 1 + count_descendants(child, ...)"
count_children(children, children_map, acc, frames) ==
    IF children = <<>> \/ acc.raised
    THEN acc
    ELSE LET sub == count_descendants(Head(children), children_map,
                                      acc.visited, frames + 1)
         IN count_children(Tail(children), children_map,
                           [count |-> acc.count + 1 + sub.count,
                            visited |-> sub.visited,
                            raised |-> sub.raised],
                           frames)

\* a depth traversal that shares one visited set among all calls, as
\* count_descendants does: a call returns its value and the set as it left it
RECURSIVE depth_shared(_, _, _)
RECURSIVE depth_shared_children(_, _, _)
depth_shared(node_name, children_map, visited) ==
    IF node_name \in visited
    THEN [value |-> 0, visited |-> visited]
    ELSE LET children == Get(children_map, node_name)
             below == depth_shared_children(children, children_map,
                          [value |-> 0, visited |-> visited \cup {node_name}])
         IN IF children = <<>>
            THEN [value |-> 0, visited |-> visited \cup {node_name}]
            ELSE [value |-> 1 + below.value, visited |-> below.visited]

depth_shared_children(children, children_map, acc) ==
    IF children = <<>>
    THEN acc
    ELSE LET sub == depth_shared(Head(children), children_map, acc.visited)
         IN depth_shared_children(Tail(children), children_map,
                [value |-> IF sub.value > acc.value THEN sub.value ELSE acc.value,
                 visited |-> sub.visited])

\* get_tree_depth with the visited set shared between sibling branches
get_tree_depth_shared_visited(node_name, children_map, visited, frames) ==
    [value |-> depth_shared(node_name, children_map, visited).value,
     raised |-> FALSE]

\* get_tree_depth without the visited test
RECURSIVE get_tree_depth_no_visited_test(_, _, _, _)
get_tree_depth_no_visited_test(node_name, children_map, visited, frames) ==
    IF frames > StackLimit
    THEN [value |-> 0, raised |-> TRUE]
    ELSE LET children == Get(children_map, node_name)
             subs == [i \in 1..Len(children) |->
                         get_tree_depth_no_visited_test(children[i], children_map,
                                        visited \cup {node_name}, frames + 1)]
         IN IF children = <<>>
            THEN [value |-> 0, raised |-> FALSE]
            ELSE IF \E i \in 1..Len(children) : subs[i].raised
            THEN [value |-> 0, raised |-> TRUE]
            ELSE [value |-> 1 + CHOOSE m \in {subs[i].value : i \in 1..Len(children)} :
                                   \A i \in 1..Len(children) : subs[i].value <= m,
                  raised |-> FALSE]

\* get_tree_depth: every child branch gets a copy of the visited set
RECURSIVE get_tree_depth(_, _, _, _)
get_tree_depth(node_name, children_map, visited, frames) ==
    IF frames > StackLimit
    THEN [value |-> 0, raised |-> TRUE]
    ELSE IF node_name \in visited
    THEN [value |-> 0, raised |-> FALSE]
    ELSE LET children == Get(children_map, node_name)
             subs == [i \in 1..Len(children) |->
                         get_tree_depth(children[i], children_map,
                                        visited \cup {node_name}, frames + 1)]
         IN IF children = <<>>
            THEN [value |-> 0, raised |-> FALSE]
            ELSE IF \E i \in 1..Len(children) : subs[i].raised
            THEN [value |-> 0, raised |-> TRUE]
            ELSE [value |-> 1 + CHOOSE m \in {subs[i].value : i \in 1..Len(children)} :
                                   \A i \in 1..Len(children) : subs[i].value <= m,
                  raised |-> FALSE]

\* the while loop of get_ancestor_count (hung: it did not stop within
\* LoopLimit iterations)
RECURSIVE ancestor_count_loop(_, _, _, _)
ancestor_count_loop(current, visited, count, parents_map) ==
    IF count >= LoopLimit
    THEN [count |-> count, hung |-> TRUE]
    ELSE IF current \in DOMAIN parents_map /\ current \notin visited
    THEN ancestor_count_loop(parents_map[current], visited \cup {current},
                             count + 1, parents_map)
    ELSE [count |-> count, hung |-> FALSE]

get_ancestor_count(node_name, parents_map) ==
    ancestor_count_loop(node_name, {}, 0, parents_map)

\* compute_tree_stats that takes as roots the names find_roots lists
compute_tree_stats_roots_of_find_roots(rows, order) ==
    LET children_map == build_children_map(rows)
        listed == Range(find_roots(rows))
        roots == SelectSeq(order, LAMBDA n : n \in listed)
        leaves == SelectSeq(order, LAMBDA n : n \notin DOMAIN children_map)
        orphans == SelectSeq(order, LAMBDA n : /\ n \in listed
                                               /\ n \notin DOMAIN children_map)
    IN [total_notes |-> Cardinality(NameSet(rows)),
        root_count |-> Len(roots),
        leaf_count |-> Len(leaves),
        orphan_count |-> Len(orphans),
        roots |-> roots,
        orphans |-> orphans]

\* compute_tree_stats that reports every root as an orphan
compute_tree_stats_roots_as_orphans(rows, order) ==
    LET parents_map == build_parents_map(rows)
        children_map == build_children_map(rows)
        roots == SelectSeq(order, LAMBDA n : n \notin DOMAIN parents_map)
        leaves == SelectSeq(order, LAMBDA n : n \notin DOMAIN children_map)
    IN [total_notes |-> Cardinality(NameSet(rows)),
        root_count |-> Len(roots),
        leaf_count |-> Len(leaves),
        orphan_count |-> Len(roots),
        roots |-> roots,
        orphans |-> roots]

\* compute_tree_stats; order is the order in which the set note_names is
\* iterated by the three list comprehensions
compute_tree_stats(rows, order) ==
    LET children_map == build_children_map(rows)
        parents_map == build_parents_map(rows)
        roots == SelectSeq(order, LAMBDA n : n \notin DOMAIN parents_map)
        leaves == SelectSeq(order, LAMBDA n : n \notin DOMAIN children_map)
        orphans == SelectSeq(order, LAMBDA n : /\ n \notin DOMAIN parents_map
                                               /\ n \notin DOMAIN children_map)
    IN [total_notes |-> Cardinality(NameSet(rows)),
        root_count |-> Len(roots),
        leaf_count |-> Len(leaves),
        orphan_count |-> Len(orphans),
        roots |-> roots,
        orphans |-> orphans]

----------------------------------------------------------------------------
(* tree_viewer_workflow.py *)

\* get_tree_for_display that keeps a requested root that is no record's name
get_tree_for_display_keeps_root(rows, root_name, inverted, order) ==
    LET note_names == NameSet(rows)
        available == SortedLower(order)
        roots == find_roots(rows)
        missing == root_name = None \/ root_name = ""
        root == IF ~missing THEN root_name
                ELSE IF inverted
                     THEN (IF available # <<>> THEN available[1] ELSE None)
                     ELSE (IF roots # <<>> THEN roots[1]
                           ELSE IF available # <<>> THEN available[1] ELSE None)
        tree == IF root = None THEN [name |-> NoData]
                ELSE IF inverted
                     THEN build_inverted_tree_data(root, build_parents_map(rows),
                                                   note_names, {}, DefaultMaxDepth)
                     ELSE build_tree_data(root, build_children_map(rows),
                                          note_names, {}, DefaultMaxDepth)
    IN [tree |-> tree, nodes |-> available]

\* get_tree_for_display that defaults to the first name in both orientations
get_tree_for_display_first_name(rows, root_name, inverted, order) ==
    LET note_names == NameSet(rows)
        available == SortedLower(order)
        missing == root_name = None \/ root_name = "" \/ root_name \notin note_names
        root == IF ~missing THEN root_name
                ELSE IF available # <<>> THEN available[1] ELSE None
        tree == IF root = None THEN [name |-> NoData]
                ELSE IF inverted
                     THEN build_inverted_tree_data(root, build_parents_map(rows),
                                                   note_names, {}, DefaultMaxDepth)
                     ELSE build_tree_data(root, build_children_map(rows),
                                          note_names, {}, DefaultMaxDepth)
    IN [tree |-> tree, nodes |-> available]

\* get_tree_for_display; order is the order in which the set note_names is
\* iterated by sorted()
get_tree_for_display(rows, root_name, inverted, order) ==
    LET note_names == NameSet(rows)
        available == SortedLower(order)
        roots == find_roots(rows)
        missing == root_name = None \/ root_name = "" \/ root_name \notin note_names
        root == IF ~missing THEN root_name
                ELSE IF inverted
                     THEN (IF available # <<>> THEN available[1] ELSE None)
                     ELSE (IF roots # <<>> THEN roots[1]
                           ELSE IF available # <<>> THEN available[1] ELSE None)
        tree == IF root = None THEN [name |-> NoData]
                ELSE IF inverted
                     THEN build_inverted_tree_data(root, build_parents_map(rows),
                                                   note_names, {}, DefaultMaxDepth)
                     ELSE build_tree_data(root, build_children_map(rows),
                                          note_names, {}, DefaultMaxDepth)
    IN [tree |-> tree, nodes |-> available]

----------------------------------------------------------------------------
(* The requests *)

\* the empty filter map (an empty dict)
NoFilters == [column \in {} |-> {}]

\* an empty dict of strings: no query parameter, no session entry
NoEntries == [key \in {} |-> ""]

\* the streamlit state when the viewer is not running
NoViewer == [query_params |-> NoEntries, session_state |-> NoEntries,
             inverted |-> FALSE, filters |-> NoFilters]

NoArgs == [root |-> None, max_depth |-> DefaultMaxDepth, inverted |-> FALSE,
           filters |-> NoFilters]

\* a column that filters may name and the collection does not have
AbsentColumn == "tag"

\* the filter maps tried: the status column absent or with any accepted
\* list, the absent column absent or with one
FilterMaps ==
    {[column \in {"status"} |-> vs] : vs \in SUBSET Statuses}
    \cup {NoFilters, [column \in {AbsentColumn} |-> {"x"}]}
    \cup {[column \in {"status", AbsentColumn} |->
              IF column = "status" THEN {"active"} ELSE {"x"}]}

\* the records of the filter requests: the status column varies
FilterRecord == [name : Names, parent : {"", "a", "B", Ghost}, status : Statuses]

FilterCollections == UNION {[1..n -> FilterRecord] : n \in 0..MaxRecords}


\* the records of the tree requests: the status column is not read by them
TreeRecord == [name : Names, parent : Parents, status : {"active"}]

\* the collections a scan can leave in storage
Collections == UNION {[1..n -> TreeRecord] : n \in 0..MaxRecords}

\* the root names a caller may pass: a record name or one that is none
RootArgs == Names \cup {Ghost}

\* the max_depth arguments tried
DepthArgs == 0..MaxDepthArg \cup {DefaultMaxDepth}

\* the orders in which a set of names can be iterated
Orderings(S) ==
    {seq \in [1..Cardinality(S) -> S] : Range(seq) = S}

\* one iteration order for every outcome of sorted(S, key=str.lower): the
\* sort is stable and idempotent, so the orders that are already sorted give
\* every list that sorting some order of S can give
IterationOrders(S) == {SortedLower(order) : order \in Orderings(S)}

Init ==
    /\ df \in Collections
    /\ op = "idle"
    /\ args = NoArgs
    /\ result = None
    /\ st = NoViewer

FindRoots ==
    /\ op = "idle"
    /\ op' = "find_roots"
    /\ args' = NoArgs
    /\ result' = find_roots(df)
    /\ UNCHANGED <<df, st>>

CrawlerFindRoots ==
    /\ op = "idle"
    /\ op' = "crawler_find_roots"
    /\ args' = NoArgs
    /\ result' = crawler_find_roots(df)
    /\ UNCHANGED <<df, st>>

BuildTreeData ==
    /\ op = "idle"
    /\ LET children_map == build_children_map(df)
           note_names == NameSet(df)
       IN \E root \in RootArgs, d \in DepthArgs :
             /\ op' = "build_tree_data"
             /\ args' = [NoArgs EXCEPT !.root = root, !.max_depth = d]
             /\ result' = build_tree_data(root, children_map, note_names, {}, d)
    /\ UNCHANGED <<df, st>>

BuildInvertedTreeData ==
    /\ op = "idle"
    /\ LET parents_map == build_parents_map(df)
           note_names == NameSet(df)
       IN \E root \in RootArgs, d \in DepthArgs :
             /\ op' = "build_inverted_tree_data"
             /\ args' = [NoArgs EXCEPT !.root = root, !.max_depth = d]
             /\ result' = build_inverted_tree_data(root, parents_map, note_names, {}, d)
    /\ UNCHANGED <<df, st>>

CountDescendants ==
    /\ op = "idle"
    /\ \E node \in RootArgs :
          /\ op' = "count_descendants"
          /\ args' = [NoArgs EXCEPT !.root = node]
          /\ result' = count_descendants(node, build_children_map(df), {}, 1)
    /\ UNCHANGED <<df, st>>

GetTreeForDisplay ==
    /\ op = "idle"
    /\ \E root \in RootArgs \cup {None}, inverted \in BOOLEAN,
          order \in IterationOrders(NameSet(df)) :
          /\ op' = "get_tree_for_display"
          /\ args' = [NoArgs EXCEPT !.root = root, !.inverted = inverted]
          /\ result' = get_tree_for_display(df, root, inverted, order)
    /\ UNCHANGED <<df, st>>

GetTreeDepth ==
    /\ op = "idle"
    /\ \E node \in RootArgs :
          /\ op' = "get_tree_depth"
          /\ args' = [NoArgs EXCEPT !.root = node]
          /\ result' = get_tree_depth(node, build_children_map(df), {}, 1)
    /\ UNCHANGED <<df, st>>

GetAncestorCount ==
    /\ op = "idle"
    /\ \E node \in RootArgs :
          /\ op' = "get_ancestor_count"
          /\ args' = [NoArgs EXCEPT !.root = node]
          /\ result' = get_ancestor_count(node, build_parents_map(df))
    /\ UNCHANGED <<df, st>>

GetSubtreeNames ==
    /\ op = "idle"
    /\ \E node \in RootArgs :
          /\ op' = "get_subtree_names"
          /\ args' = [NoArgs EXCEPT !.root = node]
          /\ result' = get_subtree_names(node, build_children_map(df), {}, 1)
    /\ UNCHANGED <<df, st>>

GenerateTreeMd ==
    /\ op = "idle"
    /\ \E node \in RootArgs :
          /\ op' = "generate_tree_md"
          /\ args' = [NoArgs EXCEPT !.root = node]
          /\ result' = generate_tree_md(node, build_tree(df), 0, {}, 1)
    /\ UNCHANGED <<df, st>>

FilterDataframe ==
    /\ op = "idle"
    /\ \E filters \in FilterMaps :
          /\ op' = "filter_dataframe"
          /\ args' = [NoArgs EXCEPT !.filters = filters]
          /\ result' = filter_dataframe(df, filters)
    /\ UNCHANGED <<df, st>>

FilterWithAncestors ==
    /\ op = "idle"
    /\ \E filters \in FilterMaps :
          /\ op' = "filter_with_ancestors"
          /\ args' = [NoArgs EXCEPT !.filters = filters]
          /\ result' = filter_with_ancestors(df, filters)
    /\ UNCHANGED <<df, st>>

\* the tree, analysis and export requests on a loaded collection
Next ==
    \/ FindRoots
    \/ CrawlerFindRoots
    \/ BuildTreeData
    \/ BuildInvertedTreeData
    \/ CountDescendants
    \/ GetTreeForDisplay
    \/ GetTreeDepth
    \/ GetAncestorCount
    \/ GetSubtreeNames
    \/ GenerateTreeMd
    \/ FilterWithAncestors

Spec == Init /\ [][Next]_vars

\* the filter requests, on collections whose status column varies
FilterInit ==
    /\ df \in FilterCollections
    /\ op = "idle"
    /\ args = NoArgs
    /\ result = None
    /\ st = NoViewer

FilterNext ==
    \/ FilterDataframe
    \/ FilterWithAncestors

FilterSpec == FilterInit /\ [][FilterNext]_vars

----------------------------------------------------------------------------
(* The scan of a vault: crawl_vault, generate_csv, generate_reference_tree *)
(* and main of vault_crawler.py                                            *)

\* the largest number of files in a vault
MaxFiles == 3

\* a hidden folder of the vault, a file stem with a leading dot, and a folder
\* with a leading dot above the vault root
HiddenFolder == ".obsidian"
HiddenStem == ".c"
HiddenHome == ".notes"

\* part.startswith('.') on the path components of the model
StartsWithDot(part) == part \in {HiddenFolder, HiddenStem, HiddenHome}

\* the resolved vault root, as the components of its absolute path
VaultRoots == {<<"home", "vault">>, <<HiddenHome, "vault">>}

\* the paths of files below the vault root: folder, stem and suffix
VaultPaths ==
    {[dir |-> <<>>, stem |-> "a", suffix |-> "md"],
     [dir |-> <<>>, stem |-> "B", suffix |-> "md"],
     [dir |-> <<"sub">>, stem |-> "a", suffix |-> "md"],
     [dir |-> <<HiddenFolder>>, stem |-> "B", suffix |-> "md"],
     [dir |-> <<>>, stem |-> HiddenStem, suffix |-> "md"],
     [dir |-> <<>>, stem |-> "a", suffix |-> "txt"]}

\* the frontmatter of a document without frontmatter block
NoFrontmatter == [key \in {} |-> ""]

\* what parse_frontmatter returns for the documents of the model
Frontmatters ==
    {NoFrontmatter,
     [key \in {"parent"} |-> "[[a]]"],
     [key \in {"parent"} |-> "[[B]]"],
     [key \in {"parent", "status"} |-> IF key = "parent" THEN "a" ELSE "active"]}

\* a file: read_text raises on it or gives a document with this frontmatter
FileContents ==
    {[readable |-> FALSE, frontmatter |-> NoFrontmatter]}
    \cup {[readable |-> TRUE, frontmatter |-> fm] : fm \in Frontmatters}

\* the vault directory trees
Vaults ==
    {[root |-> r, files |-> f] :
        r \in VaultRoots,
        f \in UNION {[S -> FileContents] :
                        S \in {T \in SUBSET VaultPaths : Cardinality(T) <= MaxFiles}}}

\* re.search(r'\[\[([^\]]+)\]\]', parent_field): the name between the
\* brackets, or no match (None, kept as the empty parent: both are false
\* wherever the parent is tested)
extract_parent_name(parent_field) ==
    CASE parent_field = "[[a]]" -> "a"
      [] parent_field = "[[B]]" -> "B"
      [] OTHER -> ""

\* md_file.parts: the components of the root, of the folder, and the file
\* name, which begins with the stem
parts(vault, md_file) == vault.root \o md_file.dir \o <<md_file.stem>>

\* vault_path.rglob('*.md')
rglob_md(vault) == {f \in DOMAIN vault.files : f.suffix = "md"}

\* crawl_vault over the files in the order rglob yields them
RECURSIVE crawl_vault(_, _)
crawl_vault(vault, order) ==
    IF order = <<>> THEN <<>>
    ELSE LET md_file == Head(order)
             file == vault.files[md_file]
             frontmatter == file.frontmatter
             rest == crawl_vault(vault, Tail(order))
             note_record ==
                 [name |-> md_file.stem,
                  file_path |-> md_file,
                  parent |-> IF "parent" \in DOMAIN frontmatter
                             THEN extract_parent_name(frontmatter["parent"])
                             ELSE "",
                  status |-> IF "status" \in DOMAIN frontmatter
                             THEN frontmatter["status"] ELSE ""]
         IN IF \E part \in Range(parts(vault, md_file)) : StartsWithDot(part)
            THEN rest
            ELSE IF ~file.readable
            THEN rest
            ELSE <<note_record>> \o rest

\* sorted(notes, key=lambda x: x['name'].lower()): stable insertion
RECURSIVE InsertNoteByName(_, _)
InsertNoteByName(sorted, note) ==
    IF sorted = <<>> THEN <<note>>
    ELSE IF LowerKey(Head(sorted).name) <= LowerKey(note.name)
         THEN <<Head(sorted)>> \o InsertNoteByName(Tail(sorted), note)
         ELSE <<note>> \o sorted

RECURSIVE SortedNotes(_)
SortedNotes(notes) ==
    IF notes = <<>> THEN <<>>
    ELSE InsertNoteByName(SortedNotes(SubSeq(notes, 1, Len(notes) - 1)),
                          notes[Len(notes)])

\* generate_csv: nothing is written for no notes, else one row per note
generate_csv(notes) ==
    IF notes = <<>>
    THEN [written |-> FALSE, rows |-> <<>>]
    ELSE [written |-> TRUE, rows |-> SortedNotes(notes)]

\* generate_reference_tree: the trees of the roots, one after the other
generate_reference_tree(notes) ==
    LET children_map == build_tree(notes)
        roots == crawler_find_roots(notes)
        trees == [i \in 1..Len(roots) |->
                     generate_tree_md(roots[i], children_map, 0, {}, 1)]
    IN [lines |-> JoinLines(trees),
        raised |-> \E i \in 1..Len(roots) : trees[i].raised]

\* main: the vault is scanned, then the table and the tree are written
CrawlInit ==
    /\ df = <<>>
    /\ op = "idle"
    /\ args \in {[vault |-> v] : v \in Vaults}
    /\ result = None
    /\ st = NoViewer

CrawlVault ==
    /\ op = "idle"
    /\ \E order \in Orderings(rglob_md(args.vault)) :
          /\ df' = crawl_vault(args.vault, order)
          /\ result' = crawl_vault(args.vault, order)
    /\ op' = "crawl_vault"
    /\ UNCHANGED <<args, st>>

GenerateCsv ==
    /\ op = "crawl_vault"
    /\ op' = "generate_csv"
    /\ result' = generate_csv(df)
    /\ UNCHANGED <<df, args, st>>

GenerateReferenceTree ==
    /\ op = "generate_csv"
    /\ op' = "generate_reference_tree"
    /\ result' = generate_reference_tree(df)
    /\ UNCHANGED <<df, args, st>>

CrawlNext ==
    \/ CrawlVault
    \/ GenerateCsv
    \/ GenerateReferenceTree

CrawlSpec == CrawlInit /\ [][CrawlNext]_vars

----------------------------------------------------------------------------
(* The maps and the statistics of a collection *)

\* the records of the map requests: the parent may also be blank
MapRecord == [name : Names, parent : Parents \cup {Blank}, status : {"active"}]

MapCollections == UNION {[1..n -> MapRecord] : n \in 0..MaxRecords}

MapsInit ==
    /\ df \in MapCollections
    /\ op = "idle"
    /\ args = NoArgs
    /\ result = None
    /\ st = NoViewer

BuildChildrenMap ==
    /\ op = "idle"
    /\ op' = "build_children_map"
    /\ args' = NoArgs
    /\ result' = build_children_map(df)
    /\ UNCHANGED <<df, st>>

BuildTree ==
    /\ op = "idle"
    /\ op' = "build_tree"
    /\ args' = NoArgs
    /\ result' = build_tree(df)
    /\ UNCHANGED <<df, st>>

ComputeTreeStats ==
    /\ op = "idle"
    /\ \E order \in Orderings(NameSet(df)) :
          /\ op' = "compute_tree_stats"
          /\ args' = NoArgs
          /\ result' = compute_tree_stats(df, order)
    /\ UNCHANGED <<df, st>>

MapsNext ==
    \/ BuildChildrenMap
    \/ BuildTree
    \/ ComputeTreeStats

MapsSpec == MapsInit /\ [][MapsNext]_vars

----------------------------------------------------------------------------
(* The per-path traversals on collections with shared descendants *)

\* records that all declare a parent
LinkRecord == [name : Names, parent : Names, status : {"active"}]

\* collections of one record more, so that a name can hang under two
\* parents and have a subtree of its own
LinkCollections == UNION {[1..n -> LinkRecord] : n \in 0..(MaxRecords + 1)}

PathInit ==
    /\ df \in LinkCollections
    /\ op = "idle"
    /\ args = NoArgs
    /\ result = None
    /\ st = NoViewer

PathNext ==
    \/ GetTreeDepth
    \/ BuildTreeData

PathSpec == PathInit /\ [][PathNext]_vars

----------------------------------------------------------------------------
(* The tree handed to the display: get_tree_for_display alone *)

DisplayNext == GetTreeForDisplay

DisplaySpec == Init /\ [][DisplayNext]_vars

----------------------------------------------------------------------------
(* The viewer: render_tree_viewer of tree_viewer_app.py, run by streamlit   *)
(* from top to bottom once per page load, per widget event and per rerun    *)

\* the largest number of records of a collection the viewer loads
MaxViewRecords == 2

\* what str(None) gives: the text of the query parameter after None was
\* assigned to it
NoneText == "'None'"

\* the status and category columns of the records of the viewer
ViewTags == {[status |-> "active", category |-> "x"],
             [status |-> "proposed", category |-> "y"]}

\* the names of the records of the viewer
ViewNames == {"a", "B"}

ViewRecord ==
    {[name |-> n, parent |-> p, status |-> t.status, category |-> t.category] :
        n \in ViewNames, p \in {"", "a"}, t \in ViewTags}

\* the collections load_vault_data gives: generate_csv writes no table for
\* a scan without notes, so a loaded collection has a record
ViewCollections == UNION {[1..n -> ViewRecord] : n \in 1..MaxViewRecords}

\* the columns with a filter control
FilterColumns == {"status", "category"}

\* get_filter_options: the values present in a column, empty ones left out
get_filter_options(rows) ==
    [col \in FilterColumns |-> {rows[i][col] : i \in 1..Len(rows)} \ {""}]

\* the selections of the filter controls that the model tries: for each
\* column nothing or one of its options
FilterChoices(rows) ==
    {f \in UNION {[S -> {{v} : v \in UNION Range([i \in 1..Len(rows) |->
                                   {rows[i].status, rows[i].category}])}] :
                     S \in SUBSET FilterColumns} :
        \A col \in DOMAIN f : f[col] \subseteq get_filter_options(rows)[col]}

\* apply_filters: empty lists are dropped, ancestors of the matches are kept
apply_filters(rows, filters) ==
    LET kept == {k \in DOMAIN filters : filters[k] # {}}
        active_filters == [k \in kept |-> filters[k]]
    IN filter_with_ancestors(rows, active_filters).rows

\* dict.get(key, None)
Entry(map, key) == IF key \in DOMAIN map THEN map[key] ELSE None

\* map[key] = value and del map[key]
Put(map, key, value) ==
    [k \in DOMAIN map \cup {key} |-> IF k = key THEN value ELSE map[k]]

Without(map, key) == [k \in DOMAIN map \ {key} |-> map[k]]

\* the truth value of an optional string
Truthy(value) == value # None /\ value # ""

\* st.query_params[key] = value stores str(value)
QueryText(value) == IF value = None THEN NoneText ELSE value

\* list.index: the first position of the entry
index(list, entry) ==
    CHOOSE i \in 1..Len(list) :
        list[i] = entry /\ \A j \in 1..(i - 1) : list[j] # entry

\* hierarchy(data) of the page: the names on the nodes drawn, each of which
\* can be clicked
RECURSIVE hierarchy(_)
hierarchy(data) ==
    {data.name}
    \cup (IF "children" \in DOMAIN data
          THEN UNION {hierarchy(data.children[i]) : i \in 1..Len(data.children)}
          ELSE {})

\* st.selectbox with a key: None without options; the value the user just
\* chose in the run that the choice triggered; else the value kept under the
\* key when it is still an option, or the option at the index given
selectbox(options, position, kept, chose) ==
    IF options = <<>> THEN {None}
    ELSE IF chose /\ kept \in Range(options) THEN {kept}
    ELSE {options[position]} \cup ({kept} \cap Range(options))

\* what starts a run of the script: a page load, st.rerun(), and the events
\* of the root selector, the reset button, the filters and the direction
RunTriggers == {"load", "rerun", "select", "reset", "filters", "direction"}

\* a page load: a new session, the widgets at their defaults
PageLoad(query_params) ==
    [query_params |-> query_params, session_state |-> NoEntries,
     inverted |-> FALSE, filters |-> NoFilters]

ViewerInit ==
    /\ df \in ViewCollections
    /\ op = "load"
    /\ args = NoArgs
    /\ result = None
    /\ st \in {PageLoad(NoEntries)}
              \cup {PageLoad(Put(NoEntries, "root", n)) : n \in RootArgs}

\* the session state after the first lines of render_tree_viewer: the root
\* of the address is taken in a new session, and when it is not empty and
\* differs from the root of the session
initial_session_state(state) ==
    IF "selected_root" \notin DOMAIN state.session_state
    THEN Put(state.session_state, "selected_root",
             Entry(state.query_params, "root"))
    ELSE IF Truthy(Entry(state.query_params, "root"))
            /\ Entry(state.query_params, "root")
                   # state.session_state["selected_root"]
    THEN Put(state.session_state, "selected_root",
             Entry(state.query_params, "root"))
    ELSE state.session_state

\* the collection after the filters of the sidebar
sidebar_filtered_df(state, rows) ==
    IF DOMAIN state.filters # {}
    THEN apply_filters(rows, state.filters)
    ELSE rows

\* the root selector: the entry of the root of the tree, or the first
current_index(tree_data, available_nodes) ==
    IF tree_data.name \in Range(available_nodes)
    THEN index(available_nodes, tree_data.name)
    ELSE 1

\* the rest of the run once the selector has given its value
render_selected(state, trigger, session_state, filtered_df, order, display, selected) ==
    LET selected_root == session_state["selected_root"]
        widgets == Put(session_state, "root_selector", selected)
        read == [NoArgs EXCEPT !.root = Entry(state.query_params, "root"),
                               !.inverted = state.inverted,
                               !.filters = state.filters]
        pass == [root_name |-> selected_root,
                 filtered_df |-> filtered_df,
                 nodes |-> display.nodes,
                 tree |-> display.tree,
                 shown |-> "rerun"]
    IN IF selected # selected_root
       THEN [st |-> [state EXCEPT
                       !.session_state = Put(widgets, "selected_root", selected),
                       !.query_params = Put(@, "root", QueryText(selected))],
             op |-> "rerun", args |-> read, result |-> pass]
       ELSE IF trigger = "reset"
       THEN [st |-> [state EXCEPT
                       !.session_state = Put(widgets, "selected_root", None),
                       !.query_params = Without(@, "root")],
             op |-> "rerun", args |-> read, result |-> pass]
       ELSE [st |-> [state EXCEPT !.session_state = widgets],
             op |-> "idle", args |-> read,
             result |->
                IF display.nodes # <<>>
                THEN [pass EXCEPT
                        !.shown = "tree",
                        !.tree = get_tree_for_display(filtered_df,
                                     IF Truthy(selected_root)
                                     THEN selected_root ELSE selected,
                                     state.inverted, order).tree]
                ELSE [pass EXCEPT !.shown = "warning"]]

\* the run from the first call of get_tree_for_display on
runs_from(state, trigger, session_state, filtered_df) ==
    UNION {UNION {{render_selected(state, trigger, session_state, filtered_df,
                                   order, display, selected) :
                      selected \in selectbox(display.nodes,
                                      current_index(display.tree, display.nodes),
                                      Entry(state.session_state, "root_selector"),
                                      trigger = "select")} :
                     display \in {get_tree_for_display(filtered_df,
                                      session_state["selected_root"],
                                      state.inverted, order)}} :
              order \in IterationOrders(NameSet(filtered_df))}

\* one run of render_tree_viewer, up to st.rerun() or to the end: the
\* outcomes it can have from the streamlit state, the collection loaded and
\* what started the run; an outcome is the streamlit state it leaves, whether
\* a rerun was asked for, and what the run read and drew
render_tree_viewer(state, rows, trigger) ==
    UNION {runs_from(state, trigger, session_state, filtered_df) :
              session_state \in {initial_session_state(state)},
              filtered_df \in {sidebar_filtered_df(state, rows)}}

RenderTreeViewer ==
    /\ op \in RunTriggers
    /\ \E outcome \in render_tree_viewer(st, df, op) :
          /\ st' = outcome.st
          /\ op' = outcome.op
          /\ args' = outcome.args
          /\ result' = outcome.result
    /\ UNCHANGED df

\* the user picks another entry of the root selector
SelectRoot ==
    /\ op = "idle"
    /\ \E n \in Range(result.nodes) \ {Entry(st.session_state, "root_selector")} :
          st' = [st EXCEPT !.session_state = Put(@, "root_selector", n)]
    /\ op' = "select"
    /\ UNCHANGED <<df, args, result>>

\* the user changes the selection of the filter controls
SetFilters ==
    /\ op = "idle"
    /\ \E filters \in FilterChoices(df) \ {st.filters} :
          st' = [st EXCEPT !.filters = filters]
    /\ op' = "filters"
    /\ UNCHANGED <<df, args, result>>

\* the user switches between descendants and ancestors
SetDirection ==
    /\ op = "idle"
    /\ st' = [st EXCEPT !.inverted = ~@]
    /\ op' = "direction"
    /\ UNCHANGED <<df, args, result>>

\* the user presses "Reset to root"
PressReset ==
    /\ op = "idle"
    /\ op' = "reset"
    /\ UNCHANGED <<df, args, result, st>>

\* the user clicks the name of a node of the tree shown: the script of the
\* page sets the root parameter of the address and the page is loaded from
\* it, in a new session or, where the host keeps it, in the session at hand
ClickNode ==
    /\ op = "idle"
    /\ result.shown = "tree"
    /\ \E nodeName \in hierarchy(result.tree), kept \in BOOLEAN :
          st' = IF kept
                THEN [st EXCEPT !.query_params = Put(@, "root", nodeName)]
                ELSE PageLoad(Put(st.query_params, "root", nodeName))
    /\ op' = "load"
    /\ UNCHANGED <<df, args, result>>

ViewerNext ==
    \/ RenderTreeViewer
    \/ SelectRoot
    \/ SetFilters
    \/ SetDirection
    \/ PressReset
    \/ ClickNode

ViewerSpec == ViewerInit /\ [][ViewerNext]_vars

\* streamlit runs the script whenever a run is due; a run that leaves the
\* state as it found it and ends in st.rerun() shows as a state that no
\* longer changes while a run stays due
ViewerFairSpec == ViewerSpec /\ WF_vars(RenderTreeViewer)

----------------------------------------------------------------------------
(* Trees and hierarchies, as the properties speak of them *)

\* node.get('children', [])
Kids(t) == IF "children" \in DOMAIN t THEN t.children ELSE <<>>

Max(S) == CHOOSE x \in S : \A y \in S : y <= x

\* edges on the longest path from the root of t to a node of t
RECURSIVE TreeDepth(_)
TreeDepth(t) ==
    IF Kids(t) = <<>> THEN 0
    ELSE 1 + Max({TreeDepth(Kids(t)[i]) : i \in 1..Len(Kids(t))})

\* the names of the nodes of t
RECURSIVE NodeNames(_)
NodeNames(t) ==
    {t.name} \cup UNION {NodeNames(Kids(t)[i]) : i \in 1..Len(Kids(t))}

RECURSIVE SumSeq(_)
SumSeq(seq) == IF seq = <<>> THEN 0 ELSE Head(seq) + SumSeq(Tail(seq))

\* the number of nodes of t named n
RECURSIVE CountNamed(_, _)
CountNamed(t, n) ==
    (IF t.name = n THEN 1 ELSE 0)
    + SumSeq([i \in 1..Len(Kids(t)) |-> CountNamed(Kids(t)[i], n)])

\* the names of the children of the root of t, in order
KidNames(t) == [i \in 1..Len(Kids(t)) |-> Kids(t)[i].name]

\* how often x occurs in seq
Count(seq, x) == Cardinality({i \in 1..Len(seq) : seq[i] = x})

\* ascending in case-insensitive order
IsAscendingLower(seq) ==
    \A i, j \in 1..Len(seq) : i < j => LowerKey(seq[i]) <= LowerKey(seq[j])

\* every name the model speaks of
AllNames == Names \cup {Ghost}

\* the parent a record of the viewer refers to (blanks around it ignored)
ParentRef(r) == Strip(r.parent)

\* the rows of df that declare p as their parent
DeclaringRows(p) == {i \in 1..Len(df) : ParentRef(df[i]) # "" /\ ParentRef(df[i]) = p}

\* the names of the records that declare p as their parent
DeclaredChildren(p) == {df[i].name : i \in DeclaringRows(p)}

\* the names reachable from the names in S by one or more child links
RECURSIVE Closure(_, _)
Closure(frontier, seen) ==
    LET next == UNION {DeclaredChildren(n) : n \in frontier} \ seen
    IN IF next = {} THEN seen ELSE Closure(next, seen \cup next)

Descendants(n) == Closure({n}, {})

UniqueNames == \A i, j \in 1..Len(df) : df[i].name = df[j].name => i = j

Acyclic == \A n \in AllNames : n \notin Descendants(n)

\* edges on the longest chain of child links below n (of an acyclic df)
RECURSIVE Height(_)
Height(n) ==
    IF DeclaredChildren(n) = {} THEN 0
    ELSE 1 + Max({Height(c) : c \in DeclaredChildren(n)})

----------------------------------------------------------------------------
(* C1 *)

\* the rows the viewer treats as roots: parent empty or no record's name
RootRows == {i \in 1..Len(df) :
                ParentRef(df[i]) = "" \/ ParentRef(df[i]) \notin NameSet(df)}

\* the same for the crawler, which compares the parent as extracted
CrawlerRootRows == {i \in 1..Len(df) :
                       df[i].parent = "" \/ df[i].parent \notin NameSet(df)}

\* C1: find_roots (of the viewer and of the crawler) returns exactly the
\* names of the records whose parent is empty or names no record of the
\* collection, one entry per such record, in case-insensitive ascending order.
C1_FindRootsExact ==
    /\ op = "find_roots" =>
          /\ \A n \in AllNames :
                Count(result, n) = Cardinality({i \in RootRows : df[i].name = n})
          /\ Len(result) = Cardinality(RootRows)
          /\ IsAscendingLower(result)
    /\ op = "crawler_find_roots" =>
          /\ \A n \in AllNames :
                Count(result, n) = Cardinality({i \in CrawlerRootRows : df[i].name = n})
          /\ Len(result) = Cardinality(CrawlerRootRows)
          /\ IsAscendingLower(result)

\* a record with the dangling parent is a root, a record whose parent exists
\* is none, and the roots "a", "B" come out in case-insensitive order
C1_Witness ==
    /\ op = "find_roots"
    /\ result = <<"a", "B">>
    /\ \E i \in 1..Len(df) : df[i].parent = Ghost /\ df[i].name \in Range(result)
    /\ \E i \in 1..Len(df) : df[i].parent \in NameSet(df) /\ df[i].name \notin Range(result)

----------------------------------------------------------------------------
(* C2 *)

\* C2: the tree build_tree_data returns over build_children_map, for any
\* collection (with cycles or not) and any root, is at most max_depth deep.
C2_DepthAtMostMaxDepth ==
    op = "build_tree_data" => TreeDepth(result) <= args.max_depth

\* the depth guard cut a hierarchy that the default depth shows deeper
C2_Witness ==
    /\ op = "build_tree_data"
    /\ args.max_depth = 2
    /\ TreeDepth(result) = 2
    /\ TreeDepth(build_tree_data(args.root, build_children_map(df), NameSet(df),
                                 {}, DefaultMaxDepth)) = 3

----------------------------------------------------------------------------
(* C3 *)

\* a and b are each the name of one record, and each names the other as parent
TwoCycle(a, b) ==
    /\ a # b
    /\ \E i, j \in 1..Len(df) :
          /\ df[i].name = a /\ ParentRef(df[i]) = b
          /\ df[j].name = b /\ ParentRef(df[j]) = a
          /\ \A k \in 1..Len(df) : df[k].name \in {a, b} => k \in {i, j}

\* the nodes named n among the children of t
KidsNamed(t, n) == SelectSeq(Kids(t), LAMBDA k : k.name = n)

\* C3: started at a member A of a parent cycle A <-> B (default max_depth),
\* build_tree_data unrolls the cycle once: A has the child B, B has a single
\* child named A, and that A is a leaf; for the collection of just these two
\* records the tree is exactly A -> B -> A.
C3_CycleUnrolledOnce ==
    \A a, b \in Names :
        (op = "build_tree_data" /\ args.root = a
         /\ args.max_depth = DefaultMaxDepth /\ TwoCycle(a, b)) =>
            /\ result.name = a
            /\ Len(KidsNamed(result, b)) = 1
            /\ LET bnode == KidsNamed(result, b)[1]
               IN KidsNamed(bnode, a) = <<[name |-> a]>>
            /\ Len(df) = 2 =>
                  result = [name |-> a,
                            children |-> <<[name |-> b,
                                            children |-> <<[name |-> a]>>]>>]

\* the two-record cycle a <-> B, started at a
C3_Witness ==
    /\ op = "build_tree_data"
    /\ args.root = "a"
    /\ args.max_depth = DefaultMaxDepth
    /\ Len(df) = 2
    /\ TwoCycle("a", "B")
    /\ TreeDepth(result) = 2

----------------------------------------------------------------------------
(* C4 *)

\* C4: count_descendants(name, children_map) is the number of distinct nodes
\* reachable from name through the children map, name itself not counted.
C4_CountsDistinctReachable ==
    op = "count_descendants" =>
        result.count = Cardinality(Descendants(args.root) \ {args.root})

----------------------------------------------------------------------------
(* C6 *)

\* the children of every node of t are the records declaring it as parent,
\* each once, in case-insensitive ascending order
RECURSIVE ChildrenAsDeclared(_)
ChildrenAsDeclared(t) ==
    /\ Range(KidNames(t)) = DeclaredChildren(t.name)
    /\ Len(Kids(t)) = Cardinality(DeclaringRows(t.name))
    /\ IsAscendingLower(KidNames(t))
    /\ \A i \in 1..Len(Kids(t)) : ChildrenAsDeclared(Kids(t)[i])

\* the collection exercise <- agility <- box jumps, with the names of the model
Chain3 == <<[name |-> "a", parent |-> "", status |-> "active"],
            [name |-> "B", parent |-> "a", status |-> "active"],
            [name |-> "c", parent |-> "B", status |-> "active"]>>

\* C6: for an acyclic collection with unique names whose hierarchy below the
\* root is shallower than max_depth, build_tree_data(root) has exactly one
\* node for the root and for each descendant of the root and no other node,
\* and the children of each node are the records declaring it as parent, in
\* case-insensitive ascending order; the chain a <- B <- c gives a:[B:[c]].
C6_TreeIsTheHierarchy ==
    (op = "build_tree_data" /\ UniqueNames /\ Acyclic
     /\ Height(args.root) < args.max_depth) =>
        /\ \A n \in AllNames :
              CountNamed(result, n) =
                 IF n = args.root \/ n \in Descendants(args.root) THEN 1 ELSE 0
        /\ ChildrenAsDeclared(result)
        /\ (df = Chain3 /\ args.root = "a") =>
              result = [name |-> "a",
                        children |-> <<[name |-> "B",
                                        children |-> <<[name |-> "c"]>>]>>]

\* a root with two children that storage lists against the order of the tree
C6_Witness ==
    /\ op = "build_tree_data"
    /\ UniqueNames /\ Acyclic
    /\ args.root = "a"
    /\ args.max_depth = 2
    /\ Len(df) = 3
    /\ df[1].name = "c" /\ df[1].parent = "a"
    /\ df[2].name = "B" /\ df[2].parent = PaddedParent
    /\ KidNames(result) = <<"B", "c">>

----------------------------------------------------------------------------
(* C5 *)

\* C5: the result of filter_with_ancestors contains every record that
\* filter_dataframe returns for the same inputs and is closed under parents
\* (the record of a kept record's parent is kept whenever the collection has
\* one); so every root of the result is a root of the collection.
C5_SupersetClosedUnderParents ==
    op = "filter_with_ancestors" =>
        LET kept == result.rows
            direct == filter_dataframe(df, args.filters)
        IN /\ Range(direct) \subseteq Range(kept)
           /\ \A i \in 1..Len(kept) : \A j \in 1..Len(df) :
                 df[j].name = ParentRef(kept[i]) => df[j] \in Range(kept)
           /\ Range(find_roots(kept)) \subseteq Range(find_roots(df))

\* the same statement for the collections whose names are unique
C5_HoldsForUniqueNames ==
    UniqueNames => C5_SupersetClosedUnderParents

----------------------------------------------------------------------------
(* C7 *)

\* the columns of the filter map that the collection has
PresentColumns == DOMAIN args.filters \cap Columns

\* r is accepted in every column of cols
Accepted(r, cols) == \A column \in cols : r[column] \in args.filters[column]

\* sub holds the rows of rows that satisfy keep, each as often, in their order
IsSelection(sub, rows, keep(_)) ==
    /\ \A r \in Range(rows) \cup Range(sub) :
          Count(sub, r) = IF keep(r) THEN Count(rows, r) ELSE 0
    /\ \E pick \in [1..Len(sub) -> 1..Len(rows)] :
          /\ \A i \in 1..Len(sub) : rows[pick[i]] = sub[i]
          /\ \A i, j \in 1..Len(sub) : i < j => pick[i] < pick[j]

\* C7 as stated: filter_dataframe keeps exactly the records whose value is
\* accepted in every column of the filter map that the collection has, so a
\* column with an empty accepted set keeps no record.
C7_EveryPresentColumnRestricts ==
    op = "filter_dataframe" =>
        IsSelection(result, df, LAMBDA r : Accepted(r, PresentColumns))

\* C7 as amended: filter_dataframe keeps exactly the records whose value is
\* accepted in every column of the filter map that the collection has and
\* whose accepted set is not empty; a column with an empty accepted set, a
\* column the collection lacks and a column absent from the map restrict
\* nothing.
C7_NonEmptyPresentColumnsRestrict ==
    op = "filter_dataframe" =>
        IsSelection(result, df, LAMBDA r :
            Accepted(r, {column \in PresentColumns : args.filters[column] # {}}))

\* a filter on status and on a column the collection lacks keeps one of three
C7_Witness ==
    /\ op = "filter_dataframe"
    /\ DOMAIN args.filters = {"status", AbsentColumn}
    /\ Len(df) = 3
    /\ Len(result) = 1

----------------------------------------------------------------------------
(* C8 *)

\* t has at most one child at every node
RECURSIVE IsChain(_)
IsChain(t) == Len(Kids(t)) <= 1 /\ (Len(Kids(t)) = 1 => IsChain(Kids(t)[1]))

\* the names along a chain, from its root
RECURSIVE ChainNames(_)
ChainNames(t) ==
    IF Kids(t) = <<>> THEN <<t.name>> ELSE <<t.name>> \o ChainNames(Kids(t)[1])

\* the node at position i of the chain (depth i - 1) gets no child
ChainStops(chain, i, parents_map, valid, max_depth) ==
    \/ chain[i] \notin DOMAIN parents_map
    \/ parents_map[chain[i]] \notin valid
    \/ \E j \in 1..(i - 1) : chain[j] = chain[i]
    \/ i - 1 >= max_depth

\* C8: the tree of build_inverted_tree_data is a single chain from the start
\* name; the child of a node n is parents_map[n], present only if it is a
\* valid name; the chain ends at the first node without parent entry, with a
\* parent that is no valid name, that repeats a name of the chain, or that
\* sits at depth max_depth.
C8_InvertedTreeIsParentChain ==
    op = "build_inverted_tree_data" =>
        /\ IsChain(result)
        /\ LET chain == ChainNames(result)
               parents_map == build_parents_map(df)
               valid == NameSet(df)
           IN /\ chain[1] = args.root
              /\ \A i \in 1..(Len(chain) - 1) :
                    /\ chain[i] \in DOMAIN parents_map
                    /\ chain[i + 1] = parents_map[chain[i]]
                    /\ chain[i + 1] \in valid
                    /\ ~ChainStops(chain, i, parents_map, valid, args.max_depth)
              /\ ChainStops(chain, Len(chain), parents_map, valid, args.max_depth)

\* a chain of two ancestors that stops below a parent that is no record
C8_Witness ==
    /\ op = "build_inverted_tree_data"
    /\ args.max_depth = DefaultMaxDepth
    /\ ChainNames(result) = <<"c", "B", "a">>
    /\ "a" \in DOMAIN build_parents_map(df)
    /\ build_parents_map(df)["a"] = Ghost

----------------------------------------------------------------------------
(* C9 *)

\* a and b are on a parent cycle
OnCycle(n) == n \in Descendants(n)

----------------------------------------------------------------------------
(* C10 *)

\* C10: every node of the tree of get_tree_for_display, in either
\* orientation and for any requested root, carries the name of a record of
\* the collection; for an empty collection the tree is the placeholder node.
C10_OnlyRecordsBecomeNodes ==
    op = "get_tree_for_display" =>
        \/ NodeNames(result.tree) \subseteq NameSet(df)
        \/ df = <<>> /\ result.tree = [name |-> NoData]

\* the dangling name was requested as root, and the ancestor view of the
\* record that took its place stops below the dangling parent
C10_Witness ==
    /\ op = "get_tree_for_display"
    /\ args.root = Ghost
    /\ args.inverted
    /\ df # <<>>
    /\ \A i \in 1..Len(df) : df[i].parent = Ghost
    /\ Kids(result.tree) = <<>>

----------------------------------------------------------------------------
(* C11 *)

\* the lines of the export that carry the name n
LinesNamed(lines, n) == {k \in 1..Len(lines) : lines[k].name = n}

\* the names on the lines without indentation, in their order
TopLineNames(lines) == NameList(SelectSeq(lines, LAMBDA line : line.indent = 0))

\* C11: for every scanned collection with unique names the export of
\* generate_reference_tree has exactly one line for each record (none is
\* missing, none repeated), the trees of the roots following each other in
\* find_roots order.
C11_OneLinePerRecord ==
    (op = "generate_reference_tree" /\ UniqueNames) =>
        /\ \A i \in 1..Len(df) :
              Cardinality(LinesNamed(result.lines, df[i].name)) = 1
        /\ Len(result.lines) = Len(df)
        /\ TopLineNames(result.lines) = crawler_find_roots(df)

\* the same statement for the scans in which no note is its own ancestor
C11_HoldsWithoutCycles ==
    Acyclic => C11_OneLinePerRecord

----------------------------------------------------------------------------
(* C12 *)

\* no two entries of the list of records have the same name
NamesUniqueIn(notes) ==
    \A i, j \in 1..Len(notes) : notes[i].name = notes[j].name => i = j

\* C12: no two records of the result of crawl_vault, and no two rows that
\* generate_csv writes from it, have the same name.
C12_ScanNamesUnique ==
    /\ op = "crawl_vault" => NamesUniqueIn(result)
    /\ op = "generate_csv" => NamesUniqueIn(result.rows)

\* the rows written are the records of the scan, one row each
C12_OneRowPerRecord ==
    (op = "generate_csv" /\ df # <<>>) =>
        /\ result.written
        /\ Len(result.rows) = Len(df)
        /\ \A r \in Range(df) : Count(result.rows, r) = Count(df, r)

----------------------------------------------------------------------------
(* C13 *)

\* the readable markdown documents whose path below the vault root has no
\* component that begins with a dot
Scannable(vault) ==
    {f \in DOMAIN vault.files :
        /\ f.suffix = "md"
        /\ vault.files[f].readable
        /\ \A part \in Range(f.dir \o <<f.stem>>) : ~StartsWithDot(part)}

\* C13: crawl_vault yields exactly one record for every readable markdown
\* document whose path below the vault root has no component beginning with
\* a dot and no record for any other file; an unreadable document is skipped
\* and the remaining ones are still recorded.
C13_OneRecordPerVisibleDocument ==
    op = "crawl_vault" =>
        /\ {result[i].file_path : i \in 1..Len(result)} = Scannable(args.vault)
        /\ Len(result) = Cardinality(Scannable(args.vault))

\* the same statement for the vaults whose own path has no such component
C13_HoldsBelowVisibleRoot ==
    (\A part \in Range(args.vault.root) : ~StartsWithDot(part)) =>
        C13_OneRecordPerVisibleDocument

----------------------------------------------------------------------------
(* C14 *)

\* the names without entry in the Parents Map: no record of the name
\* declares a parent
StatRoots ==
    {n \in NameSet(df) :
        ~\E i \in 1..Len(df) : df[i].name = n /\ ParentRef(df[i]) # ""}

\* the names that never appear as a parent
StatLeaves == {n \in NameSet(df) : DeclaringRows(n) = {}}

Min(S) == CHOOSE x \in S : \A y \in S : x <= y

\* C14: compute_tree_stats returns total_notes = the number of distinct
\* names; roots = the names without entry in the Parents Map (each once) and
\* root_count their number; leaf_count = the number of names that never
\* appear as a parent; orphans = the names that are such a root and such a
\* leaf and orphan_count their number; orphans is a subset of roots and
\* orphan_count <= min(root_count, leaf_count) <= total_notes.
C14_StatsCountRootsLeavesOrphans ==
    op = "compute_tree_stats" =>
        /\ result.total_notes = Cardinality(NameSet(df))
        /\ Range(result.roots) = StatRoots
        /\ Len(result.roots) = Cardinality(StatRoots)
        /\ result.root_count = Cardinality(StatRoots)
        /\ result.leaf_count = Cardinality(StatLeaves)
        /\ Range(result.orphans) = StatRoots \cap StatLeaves
        /\ Len(result.orphans) = Cardinality(StatRoots \cap StatLeaves)
        /\ result.orphan_count = Cardinality(StatRoots \cap StatLeaves)
        /\ Range(result.orphans) \subseteq Range(result.roots)
        /\ result.orphan_count <= Min({result.root_count, result.leaf_count})
        /\ Min({result.root_count, result.leaf_count}) <= result.total_notes

\* three names: a root with a child, the child a leaf, and one orphan
C14_Witness ==
    /\ op = "compute_tree_stats"
    /\ result.total_notes = 3
    /\ result.root_count = 2
    /\ result.leaf_count = 2
    /\ result.orphan_count = 1
    /\ result.orphans = <<"c">>

----------------------------------------------------------------------------
(* C16 *)

\* the rows that declare p as parent, the parent taken as it is stored
StoredDeclaringRows(p) == {i \in 1..Len(df) : df[i].parent # "" /\ df[i].parent = p}

\* list holds the names of the rows in rowset, one entry per row, ascending
\* in case-insensitive order
ListsRows(list, rowset) ==
    /\ \A n \in Names :
          Count(list, n) = Cardinality({i \in rowset : df[i].name = n})
    /\ Len(list) = Cardinality(rowset)
    /\ IsAscendingLower(list)

\* C16: the keys of build_children_map are exactly the parent values, after
\* trimming, that are not empty, dangling ones included; the list under p
\* holds the names of the records that declare p as parent, one entry per
\* record, in case-insensitive ascending order; so a record whose parent is
\* empty is in no list.  build_tree of the scan does the same with the parent
\* as it was extracted.
C16_ChildrenMapGroupsByParent ==
    /\ op = "build_children_map" =>
          /\ DOMAIN result = {ParentRef(df[i]) : i \in 1..Len(df)} \ {""}
          /\ \A p \in DOMAIN result : ListsRows(result[p], DeclaringRows(p))
    /\ op = "build_tree" =>
          /\ DOMAIN result = {df[i].parent : i \in 1..Len(df)} \ {""}
          /\ \A p \in DOMAIN result : ListsRows(result[p], StoredDeclaringRows(p))

\* two records declare "a", which is no record, one of them with blanks
\* around it, and are listed against their order in storage; the record with
\* a blank parent is in no list
C16_Witness ==
    /\ op = "build_children_map"
    /\ Len(df) = 3
    /\ df[1].name = "c" /\ df[1].parent = PaddedParent
    /\ df[2].name = "B" /\ df[2].parent = "a"
    /\ df[3].name = "c" /\ df[3].parent = Blank
    /\ DOMAIN result = {"a"}
    /\ result["a"] = <<"B", "c">>

----------------------------------------------------------------------------
(* C15 *)

\* no name occurs twice on the walk w
NoRepeat(w) == \A i, j \in 1..Len(w) : w[i] = w[j] => i = j

\* the number of edges of the longest walk along child links among the walks
\* that continue the given ones; a walk ends at a name without children and
\* at the first name that repeats one before it
RECURSIVE LongestWalk(_, _)
LongestWalk(walks, edges) ==
    LET longer == UNION {{Append(w, c) : c \in DeclaredChildren(w[Len(w)])} :
                            w \in {v \in walks : NoRepeat(v)}}
    IN IF longer = {} THEN edges ELSE LongestWalk(longer, edges + 1)

\* C15: get_tree_depth(name, children_map) is the largest number of edges
\* from name down to a leaf of its subtree (on a cycle the subtree of a path
\* ends where a name of the path repeats), 0 when name has no children; the
\* value of a branch is that of its own paths, whatever the sibling branches
\* explored before it have visited.
C15_DepthIsLongestPath ==
    op = "get_tree_depth" =>
        /\ ~result.raised
        /\ result.value = LongestWalk({<<args.root>>}, 0)
        /\ DeclaredChildren(args.root) = {} => result.value = 0
        /\ Acyclic => result.value = Height(args.root)

\* the deepest path runs through a name that an elder sibling branch has
\* visited before: a visited set shared between the branches gives less
C15_Witness ==
    /\ op = "get_tree_depth"
    /\ result.value = 3
    /\ depth_shared(args.root, build_children_map(df), {}).value = 2

----------------------------------------------------------------------------
(* C18 *)

\* below a path, a node whose name is on the path or that is max_depth deep
\* is a leaf, and every other node has the records declaring it as children
RECURSIVE PerPathExpanded(_, _, _)
PerPathExpanded(t, path, budget) ==
    IF t.name \in path \/ budget <= 0
    THEN Kids(t) = <<>>
    ELSE /\ ListsRows(KidNames(t), DeclaringRows(t.name))
         /\ \A i \in 1..Len(Kids(t)) :
               PerPathExpanded(Kids(t)[i], path \cup {t.name}, budget - 1)

\* a name that repeats a name above it has no node below it
RECURSIVE RepeatsOnlyAtEnd(_, _)
RepeatsOnlyAtEnd(t, path) ==
    /\ t.name \in path => Kids(t) = <<>>
    /\ \A i \in 1..Len(Kids(t)) : RepeatsOnlyAtEnd(Kids(t)[i], path \cup {t.name})

\* the number of nodes of t named n that have children
RECURSIVE CountExpanded(_, _)
CountExpanded(t, n) ==
    (IF t.name = n /\ Kids(t) # <<>> THEN 1 ELSE 0)
    + SumSeq([i \in 1..Len(Kids(t)) |-> CountExpanded(Kids(t)[i], n)])

\* C18: the cycle guard of build_tree_data is per path: the guard makes a
\* node a leaf only if its name is already on the path from the root to it
\* (the depth guard apart), so a name reached on two paths is expanded with
\* its whole subtree on each; on every path from the root all names are
\* distinct, except that the last node may repeat one before it.
C18_GuardIsPerPath ==
    op = "build_tree_data" =>
        /\ result.name = args.root
        /\ PerPathExpanded(result, {}, args.max_depth)
        /\ RepeatsOnlyAtEnd(result, {})

\* "B" hangs under the root and under its sibling "c", one record each, and
\* is expanded at both places
C18_Witness ==
    /\ op = "build_tree_data"
    /\ args.max_depth = DefaultMaxDepth
    /\ args.root = "a"
    /\ KidNames(result) = <<"B", "c">>
    /\ KidNames(Kids(result)[2]) = <<"B">>
    /\ CountExpanded(result, "B") = 2

----------------------------------------------------------------------------
(* C19 *)

\* the first of a non-empty set of names in case-insensitive order
FirstName(S) == CHOOSE n \in S : \A m \in S : LowerKey(n) <= LowerKey(m)

\* the names of the records that are roots
RootNames == {df[i].name : i \in RootRows}

\* C19: when the requested root is missing or names no record of the
\* non-empty collection, get_tree_for_display roots the descendant tree at
\* the first root in case-insensitive order, or at the first name when the
\* collection has no root, and the ancestor tree at the first name; a
\* requested root that names a record is the root of the tree.
C19_DefaultRoot ==
    (op = "get_tree_for_display" /\ df # <<>>) =>
        result.tree.name =
            IF args.root \in NameSet(df) THEN args.root
            ELSE IF args.inverted THEN FirstName(NameSet(df))
            ELSE IF RootNames # {} THEN FirstName(RootNames)
            ELSE FirstName(NameSet(df))

\* a descendant tree was asked for a name that is no record's, and the first
\* root, where the tree starts, comes after another name
C19_Witness ==
    /\ op = "get_tree_for_display"
    /\ args.root = Ghost
    /\ ~args.inverted
    /\ RootNames # {}
    /\ result.tree.name = FirstName(RootNames)
    /\ FirstName(RootNames) # FirstName(NameSet(df))

\* the same request on a collection without root: the first name is taken
C19_WitnessNoRoot ==
    /\ op = "get_tree_for_display"
    /\ args.root = None
    /\ ~args.inverted
    /\ df # <<>>
    /\ RootNames = {}
    /\ result.tree.name = FirstName(NameSet(df))

----------------------------------------------------------------------------
(* C17 *)

\* the session has seen a run of the viewer, whose outcome result holds
PassDone == "selected_root" \in DOMAIN st.session_state

\* the last run of the viewer found no record left by the filters
NoRecordLeft == PassDone /\ result.filtered_df = <<>>

\* the viewer rests with the "no notes match" warning on the page
WarningShown == PassDone /\ op = "idle" /\ result.shown = "warning"

\* get_tree_for_display on the empty collection: the placeholder and no
\* choice, whatever the root and the orientation
EmptyDisplay ==
    \A root \in RootArgs \cup {None, "", NoneText}, inverted \in BOOLEAN :
        get_tree_for_display(<<>>, root, inverted, <<>>)
            = [tree |-> [name |-> NoData], nodes |-> <<>>]

\* C17: when the filters leave no record, get_tree_for_display returns the
\* placeholder tree and an empty list of choices in either orientation for
\* any requested root, and the viewer then shows the "no notes match"
\* warning instead of a tree.
C17_NoMatchShowsWarning ==
    /\ [](EmptyDisplay
          /\ (NoRecordLeft => /\ result.tree = [name |-> NoData]
                              /\ result.nodes = <<>>
                              /\ result.shown # "tree"))
    /\ (NoRecordLeft ~> WarningShown)

\* the part on get_tree_for_display and on what the viewer draws: no tree
C17_NoMatchDrawsNoTree ==
    /\ EmptyDisplay
    /\ NoRecordLeft => /\ result.tree = [name |-> NoData]
                       /\ result.nodes = <<>>
                       /\ result.shown = "rerun"

\* the run that is due ends in st.rerun() and leaves the session, the
\* address and what it drew as they are: it is followed by the same run
C17_RunRepeatsItself ==
    /\ NoRecordLeft
    /\ op = "rerun"
    /\ render_tree_viewer(st, df, op)
           = {[st |-> st, op |-> "rerun", args |-> args, result |-> result]}

\* filters of two columns that no record passes were set on a tree shown
C17_NoRecordLeftReached ==
    /\ NoRecordLeft
    /\ DOMAIN st.filters = FilterColumns
    /\ op = "rerun"

----------------------------------------------------------------------------
(* C20 *)

\* the viewer rests: the last run asked for no further run
Quiescent == PassDone /\ op = "idle"

\* C20: after any sequence of node clicks, selector choices, filter and
\* direction changes and resets the run/rerun loop of the viewer reaches a
\* run that asks for no further run; in that run, when the filtered
\* collection is not empty, the root of the session, the root parameter of
\* the address and the root of the tree shown are equal; and a root in the
\* address that differs from the root of the session replaces it at the
\* start of a run.
C20_LoopSettlesOnOneRoot ==
    /\ [](Quiescent /\ result.filtered_df # <<>> =>
             /\ st.session_state["selected_root"] = result.tree.name
             /\ Entry(st.query_params, "root") = result.tree.name)
    /\ [](PassDone /\ Truthy(args.root) => result.root_name = args.root)
    /\ (op \in RunTriggers ~> Quiescent)

\* the parts of C20 on the roots: they agree when the viewer rests on a
\* non-empty collection, and the address wins at the start of a run
C20_RootsAgreeAtRest ==
    /\ Quiescent /\ result.filtered_df # <<>> =>
          /\ st.session_state["selected_root"] = result.tree.name
          /\ Entry(st.query_params, "root") = result.tree.name
    /\ PassDone /\ Truthy(args.root) => result.root_name = args.root

\* the runs settle as long as the filters leave a record
C20_SettlesWhileNotesMatch ==
    (op \in RunTriggers /\ apply_filters(df, st.filters) # <<>>) ~> Quiescent

----------------------------------------------------------------------------
(* C21 *)

\* what get_tree_depth returns for the name n on the collection
DepthOf(n) == get_tree_depth(n, build_children_map(df), {}, 1).value

\* C21: for every collection, cyclic or not, and every record name n, the
\* height of the tree of build_tree_data(n, build_children_map(records),
\* names), the edges on its longest path from the root to a leaf, is the
\* smaller of get_tree_depth(n, build_children_map(records)) and max_depth.
C21_HeightIsDepthUpToMaxDepth ==
    (op = "build_tree_data" /\ args.root \in NameSet(df)) =>
        TreeDepth(result) = Min({DepthOf(args.root), args.max_depth})

\* a name on a cycle whose unrolling is deeper than max_depth: the tree is
\* cut at max_depth
C21_Witness ==
    /\ op = "build_tree_data"
    /\ args.root \in NameSet(df)
    /\ args.root \in Descendants(args.root)
    /\ args.max_depth = MaxDepthArg
    /\ DepthOf(args.root) = MaxDepthArg + 1
    /\ TreeDepth(result) = MaxDepthArg

\* the same on a cycle that fits: the tree is as deep as get_tree_depth says
C21_WitnessWholeCycle ==
    /\ op = "build_tree_data"
    /\ args.root \in NameSet(df)
    /\ args.root \in Descendants(args.root)
    /\ args.max_depth = DefaultMaxDepth
    /\ DepthOf(args.root) = 3
    /\ TreeDepth(result) = 3

----------------------------------------------------------------------------
(* C22 *)

\* the names none of whose records declares a parent
Unparented == {n \in NameSet(df) :
                  \A i \in 1..Len(df) : df[i].name = n => ParentRef(df[i]) = ""}

\* C22 as stated: for every collection the names in the roots of
\* compute_tree_stats are the names find_roots returns, and root_count is
\* the length of the list of find_roots.
C22_RootNotionsAgree ==
    op = "compute_tree_stats" =>
        /\ Range(result.roots) = Range(find_roots(df))
        /\ result.root_count = Len(find_roots(df))

\* C22, amended: the roots of compute_tree_stats are those names of
\* find_roots none of whose records declares a parent, and root_count is
\* their number, at most the length of the list of find_roots; a record
\* with a dangling parent is a root for find_roots only. The two agree
\* exactly when find_roots lists no name twice and no name of a record
\* that declares a parent.
C22_StatsRootsAmongFindRoots ==
    op = "compute_tree_stats" =>
        /\ Range(result.roots) = Range(find_roots(df)) \cap Unparented
        /\ result.root_count = Cardinality(Range(find_roots(df)) \cap Unparented)
        /\ result.root_count <= Len(find_roots(df))
        /\ C22_RootNotionsAgree <=>
              /\ Range(find_roots(df)) \subseteq Unparented
              /\ NoRepeat(find_roots(df))

\* a record with a dangling parent beside a record without parent: the
\* first is a root for find_roots only
C22_Witness ==
    /\ op = "compute_tree_stats"
    /\ \E i \in 1..Len(df) : df[i].parent = Ghost /\ df[i].name \notin Unparented
    /\ result.root_count = 1
    /\ Len(find_roots(df)) = 2
    /\ NoRepeat(find_roots(df))

----------------------------------------------------------------------------
(* C23 *)

\* r satisfies the filters itself: filter_dataframe keeps such records
SatisfiesFilters(r) ==
    Accepted(r, {column \in PresentColumns : args.filters[column] # {}})

\* the names above n along the Parents Map, up to the first that repeats
RECURSIVE NamesAbove(_, _, _)
NamesAbove(parents_map, n, seen) ==
    IF n \notin DOMAIN parents_map \/ n \in seen THEN {}
    ELSE {parents_map[n]}
         \cup NamesAbove(parents_map, parents_map[n], seen \cup {n})

\* r is an ancestor, along the Parents Map of the whole collection, of a
\* record that satisfies the filters
AncestorOfMatch(r) ==
    \E m \in Range(df) :
        SatisfiesFilters(m) /\ r.name \in NamesAbove(build_parents_map(df), m.name, {})

\* sub holds rows of rows, as they are and in their order
IsSubsequence(sub, rows) ==
    \E pick \in [1..Len(sub) -> 1..Len(rows)] :
        /\ \A i \in 1..Len(sub) : rows[pick[i]] = sub[i]
        /\ \A i, j \in 1..Len(sub) : i < j => pick[i] < pick[j]

\* C23: every record of the result of filter_with_ancestors is a record of
\* the collection that satisfies the filters itself or is an ancestor, along
\* the Parents Map of the whole collection, of a record that satisfies
\* them; the kept records are unchanged and in their original order, and
\* with an empty filter map the result is the whole collection.
C23_OnlyMatchesAndAncestors ==
    op = "filter_with_ancestors" =>
        /\ \A r \in Range(result.rows) :
              /\ r \in Range(df)
              /\ SatisfiesFilters(r) \/ AncestorOfMatch(r)
        /\ IsSubsequence(result.rows, df)
        /\ DOMAIN args.filters = {} => result.rows = df

\* the same statement for the collections whose names are unique
C23_HoldsForUniqueNames ==
    UniqueNames => C23_OnlyMatchesAndAncestors

\* with unique names an ancestor that fails the filters is kept above a
\* match, and a record that is neither is dropped
C23_AncestorKeptReached ==
    /\ op = "filter_with_ancestors"
    /\ UniqueNames
    /\ Len(df) = 3
    /\ Len(result.rows) = 2
    /\ \E r \in Range(result.rows) : ~SatisfiesFilters(r) /\ AncestorOfMatch(r)

====
